---- MODULE Spec2Model ----
(***************************************************************************)
(* Playback state machine of the VehicleMap component                      *)
(* (src/src/components/VehicleMap.jsx).                                    *)
(*                                                                         *)
(* The component owns three pieces of React state (routeData,              *)
(* currentIndex, isPlaying), one ref (intervalRef) and, through            *)
(* setInterval / clearInterval, a set of live browser timers.  Every       *)
(* handler (a click, a timer callback, the completion of the route load)   *)
(* calls state setters; React then commits the new state and re-runs the   *)
(* timer effect whose dependencies changed: first the cleanup returned by  *)
(* the previous run, then the effect body.  The commit cycle is modelled   *)
(* by pc: "idle" (settled), "cleanup" (state committed, previous effect    *)
(* not yet cleaned up), "setup" (cleanup done, effect body not yet run).   *)
(* A commit cycle runs to completion before the next handler is taken:     *)
(* React flushes pending effects before it processes another update, and   *)
(* the interval period (2000 ms) is what separates two timer callbacks.    *)
(***************************************************************************)
EXTENDS Integers, Sequences, FiniteSets, TLC

\* ---- bounds of the model ------------------------------------------------
MaxLen == 3        \* longest payload array delivered by the route load
MaxTimers == 4     \* number of setInterval calls explored in one lifetime

\* ---- program constants --------------------------------------------------
NoTimer == 0       \* intervalRef.current === null (useRef(null))
InitialIndex == 0  \* useState(0)

Lats == {0, 1}
Lngs == {0}
Stamps == {0, 1}

\* One record of dummy-route.json, and the array element that is not an
\* object (null), on which point.latitude throws.
RawPoint == [latitude : Lats, longitude : Lngs, timestamp : Stamps]
NullElem == [null : {TRUE}]
RawElem == RawPoint \cup NullElem

SeqUpTo(S, n) == UNION {[1..k -> S] : k \in 0..n}

\* What the fetch of /dummy-route.json can deliver: a rejected fetch, a body
\* that is not JSON, JSON that is not an array, or a JSON array.
Payloads ==
    [kind : {"fetchReject", "badJson", "notArray"}, data : {<<>>}]
      \cup [kind : {"array"}, data : SeqUpTo(RawElem, MaxLen)]

IsNull(e) == "null" \in DOMAIN e

\* data.map(point => ({lat: point.latitude, lng: point.longitude,
\*                     timestamp: point.timestamp}))
MapPoint(point) ==
    [lat |-> point.latitude, lng |-> point.longitude,
     timestamp |-> point.timestamp]

\* The try block of loadData: does it reach setRouteData, or throw first?
LoadThrows(p) ==
    \/ p.kind # "array"
    \/ \E i \in 1..Len(p.data) : IsNull(p.data[i])

MapPayload(p) == [i \in 1..Len(p.data) |-> MapPoint(p.data[i])]

\* ---- what a render computes from (currentIndex, routeData) ---------------

\* A timestamp h of Stamps stands for the ISO-8601 string of the instant h
\* hours after the epoch; new Date(timestamp).getTime() is its epoch time in
\* milliseconds.
MsPerHour == 1000 * 60 * 60
DateGetTime(timestamp) == timestamp * MsPerHour

\* 111.32 km per degree, in hundredths of a km
CentiKmPerDegree == 11132

\* timestamp: null of the default position
NullStamp == -1

\* routeData[i] of a 0-based index: the point, or undefined
Undefined == [undefined |-> TRUE]
At(route, i) == IF i >= 0 /\ i < Len(route) THEN route[i + 1] ELSE Undefined
IsMissing(v) == "undefined" \in DOMAIN v

\* Variant: the planar distance without the km-per-degree factor.
CalculateDistanceKmUnscaled(lat1, lon1, lat2, lon2) ==
    LET dLat == lat2 - lat1
        dLon == lon2 - lon1
    IN  [radicand |-> dLat * dLat + dLon * dLon, centiPerUnit |-> 100]

\* calculateDistanceKm: Math.sqrt(dLat * dLat + dLon * dLon) * 111.32.
\* The value is the real number sqrt(radicand) * centiPerUnit / 100.
CalculateDistanceKm(lat1, lon1, lat2, lon2) ==
    LET dLat == lat2 - lat1
        dLon == lon2 - lon1
    IN  [radicand |-> dLat * dLat + dLon * dLon,
         centiPerUnit |-> CentiKmPerDegree]

RECURSIVE Gcd(_, _)
Gcd(a, b) == IF b = 0 THEN a ELSE Gcd(b, a % b)

\* largest r in lo..hi with r * r <= y (lo * lo <= y)
RECURSIVE ISqrtIn(_, _, _)
ISqrtIn(y, lo, hi) ==
    IF lo = hi THEN lo
    ELSE LET mid == (lo + hi + 1) \div 2
         IN  IF mid * mid <= y THEN ISqrtIn(y, mid, hi)
             ELSE ISqrtIn(y, lo, mid - 1)
MaxRoot == 46340
ISqrt(y) == ISqrtIn(y, 0, MaxRoot)

\* Variant: the conversion stops at minutes.
MsToHoursAsMinutes(timeDeltaMs) ==
    LET g == Gcd(IF timeDeltaMs < 0 THEN -timeDeltaMs ELSE timeDeltaMs,
                 MsPerHour)
    IN  [num |-> (timeDeltaMs \div g) * 60, den |-> MsPerHour \div g]

\* timeDeltaMs / (1000 * 60 * 60), the quotient in lowest terms
MsToHours(timeDeltaMs) ==
    LET g == Gcd(IF timeDeltaMs < 0 THEN -timeDeltaMs ELSE timeDeltaMs,
                 MsPerHour)
    IN  [num |-> timeDeltaMs \div g, den |-> MsPerHour \div g]

\* distanceKm / timeDeltaHours, rounded to the nearest hundredth (a tie goes
\* up): floor(sqrt(radicand) * c * den / num + 1/2), c = centiPerUnit.
SpeedCenti(distanceKm, timeDeltaHours) ==
    LET scale == 2 * distanceKm.centiPerUnit * timeDeltaHours.den
        root == ISqrt(distanceKm.radicand * scale * scale)
    IN  (root + timeDeltaHours.num) \div (2 * timeDeltaHours.num)

Pad2(n) == IF n < 10 THEN "0" \o ToString(n) ELSE ToString(n)

\* Number.prototype.toFixed(2) of centi / 100
ToFixed2(centi) == ToString(centi \div 100) \o "." \o Pad2(centi % 100)

\* Variant: the guards return the number 0, which the panel prints as "0".
CalculateSpeedKmHBareZero(index, route) ==
    IF index = 0 \/ Len(route) <= 1 THEN "0"
    ELSE LET currPoint == At(route, index)
             prevPoint == At(route, index - 1)
         IN  IF IsMissing(prevPoint) \/ IsMissing(currPoint) THEN "0"
             ELSE LET distanceKm == CalculateDistanceKm(
                          prevPoint.lat, prevPoint.lng,
                          currPoint.lat, currPoint.lng)
                      timeDeltaMs == DateGetTime(currPoint.timestamp)
                                       - DateGetTime(prevPoint.timestamp)
                      timeDeltaHours == MsToHours(timeDeltaMs)
                  IN  IF timeDeltaHours.num <= 0 THEN "N/A"
                      ELSE ToFixed2(SpeedCenti(distanceKm, timeDeltaHours))

\* Variant: only a strictly negative elapsed time gives the sentinel; a zero
\* elapsed time divides by zero, which toFixed prints as "Infinity" or "NaN".
CalculateSpeedKmHStrictGuard(index, route) ==
    IF index = 0 \/ Len(route) <= 1 THEN "0.00"
    ELSE LET currPoint == At(route, index)
             prevPoint == At(route, index - 1)
         IN  IF IsMissing(prevPoint) \/ IsMissing(currPoint) THEN "0.00"
             ELSE LET distanceKm == CalculateDistanceKm(
                          prevPoint.lat, prevPoint.lng,
                          currPoint.lat, currPoint.lng)
                      timeDeltaMs == DateGetTime(currPoint.timestamp)
                                       - DateGetTime(prevPoint.timestamp)
                      timeDeltaHours == MsToHours(timeDeltaMs)
                  IN  IF timeDeltaHours.num < 0 THEN "N/A"
                      ELSE IF timeDeltaHours.num = 0
                           THEN IF distanceKm.radicand = 0 THEN "NaN"
                                ELSE "Infinity"
                      ELSE ToFixed2(SpeedCenti(distanceKm, timeDeltaHours))

\* Variant: the guard against a missing point is absent; reading a field of
\* undefined throws, and the render fails.
CalculateSpeedKmHNoMissingGuard(index, route) ==
    IF index = 0 \/ Len(route) <= 1 THEN "0.00"
    ELSE LET currPoint == At(route, index)
             prevPoint == At(route, index - 1)
         IN  IF IsMissing(prevPoint) \/ IsMissing(currPoint) THEN "TypeError"
             ELSE LET distanceKm == CalculateDistanceKm(
                          prevPoint.lat, prevPoint.lng,
                          currPoint.lat, currPoint.lng)
                      timeDeltaMs == DateGetTime(currPoint.timestamp)
                                       - DateGetTime(prevPoint.timestamp)
                      timeDeltaHours == MsToHours(timeDeltaMs)
                  IN  IF timeDeltaHours.num <= 0 THEN "N/A"
                      ELSE ToFixed2(SpeedCenti(distanceKm, timeDeltaHours))

\* calculateSpeedKmH(currentIndex, routeData)
CalculateSpeedKmH(index, route) ==
    IF index = 0 \/ Len(route) <= 1 THEN "0.00"
    ELSE LET currPoint == At(route, index)
             prevPoint == At(route, index - 1)
         IN  IF IsMissing(prevPoint) \/ IsMissing(currPoint) THEN "0.00"
             ELSE LET distanceKm == CalculateDistanceKm(
                          prevPoint.lat, prevPoint.lng,
                          currPoint.lat, currPoint.lng)
                      timeDeltaMs == DateGetTime(currPoint.timestamp)
                                       - DateGetTime(prevPoint.timestamp)
                      timeDeltaHours == MsToHours(timeDeltaMs)
                  IN  IF timeDeltaHours.num <= 0 THEN "N/A"
                      ELSE ToFixed2(SpeedCenti(distanceKm, timeDeltaHours))

\* routeData[currentIndex] || { lat: 0, lng: 0, timestamp: null }
DefaultPosition == [lat |-> 0, lng |-> 0, timestamp |-> NullStamp]
CurrentPosition(index, route) ==
    IF IsMissing(At(route, index)) THEN DefaultPosition
    ELSE At(route, index)

\* new Date(timestamp).toLocaleTimeString(): the time of day of the instant
LocaleTimeString(timestamp) == Pad2(timestamp % 24) \o ":00:00"

\* currentPosition.timestamp ? new Date(...).toLocaleTimeString() : 'N/A'
TimestampText(position) ==
    IF position.timestamp = NullStamp THEN "N/A"
    ELSE LocaleTimeString(position.timestamp)

\* The status panel and the map layers of one render.
Render(index, route) ==
    [position |-> CurrentPosition(index, route),
     timestamp |-> TimestampText(CurrentPosition(index, route)),
     speed |-> CalculateSpeedKmH(index, route),
     polyline |-> Len(route) > 0]

VARIABLES
    routeData,     \* useState([])      : sequence of {lat, lng, timestamp}
    currentIndex,  \* useState(0)       : 0-based index into routeData
    isPlaying,     \* useState(false)
    intervalRef,   \* useRef(null)      : id last returned by setInterval
    timers,        \* ids of the intervals that are armed in the browser
    nextId,        \* id the next setInterval call returns
    pc,            \* position in the commit cycle
    mounted,       \* the component is mounted
    loadState,     \* loadData: "pending", "done" (try completed), "failed"
    payload,       \* what the pending fetch delivers
    lastEvent,     \* handler taken last
    prevEvent,     \* handler taken before lastEvent
    lastFired,     \* id of the interval whose callback ran last
    view           \* what the last render shows

vars == <<routeData, currentIndex, isPlaying, intervalRef, timers, nextId,
          pc, mounted, loadState, payload, lastEvent, prevEvent, lastFired,
          view>>

LastIndex == Len(routeData) - 1

Init ==
    /\ routeData = <<>>
    /\ currentIndex = InitialIndex
    /\ isPlaying = FALSE
    /\ intervalRef = NoTimer
    /\ timers = {}
    /\ nextId = 1
    /\ pc = "idle"
    /\ mounted = TRUE
    /\ loadState = "pending"
    /\ payload \in Payloads
    /\ lastEvent = "mount"
    /\ prevEvent = "mount"
    /\ lastFired = NoTimer
    /\ view = Render(InitialIndex, <<>>)

\* ---- the timer effect ---------------------------------------------------

\* Variant: the bound compares against length instead of length - 1.
EffectConditionOffByOne(playing, index, route) ==
    playing /\ Len(route) > 0 /\ index < Len(route)

\* Variant: the effect stops arming one point before the end.
EffectConditionStopsEarly(playing, index, route) ==
    playing /\ Len(route) > 0 /\ index < Len(route) - 2

\* Variant: the effect forgets to test isPlaying.
EffectConditionNoPlaying(playing, index, route) ==
    Len(route) > 0 /\ index < Len(route) - 1

\* if (isPlaying && routeData.length > 0 && currentIndex < routeData.length - 1)
EffectCondition(playing, index, route) ==
    playing /\ Len(route) > 0 /\ index < Len(route) - 1

\* clearInterval(id): disarms id; a null or already cleared id is a no-op
ClearInterval(id, live) == live \ {id}

\* Variant: the updater skips a point.
TickUpdaterSkip(prevIndex) == prevIndex + 2

\* prevIndex => prevIndex + 1
TickUpdater(prevIndex) == prevIndex + 1

\* Variant: the dependency array is [isPlaying, currentIndex].
CommitIgnoresRoute(index, playing, route, replaced, event) ==
    /\ currentIndex' = index
    /\ isPlaying' = playing
    /\ routeData' = route
    /\ view' = Render(index, route)
    /\ pc' = IF index # currentIndex \/ playing # isPlaying
             THEN "cleanup" ELSE "idle"
    /\ lastEvent' = event
    /\ prevEvent' = lastEvent

\* A handler has called setters.  React bails out when every state keeps its
\* value (Object.is); otherwise it commits and re-runs the timer effect, all
\* of whose dependencies [isPlaying, currentIndex, routeData] are the state.
\* replaced: setRouteData got a new array (a new identity even when empty).
Commit(index, playing, route, replaced, event) ==
    /\ currentIndex' = index
    /\ isPlaying' = playing
    /\ routeData' = route
    /\ view' = Render(index, route)
    /\ pc' = IF replaced \/ index # currentIndex \/ playing # isPlaying
             THEN "cleanup" ELSE "idle"
    /\ lastEvent' = event
    /\ prevEvent' = lastEvent

\* A handler can be taken when the component is mounted and settled.
Ready == mounted /\ pc = "idle" /\ nextId <= MaxTimers

\* Variant: the effect returns no cleanup.
EffectCleanupNone ==
    /\ pc = "cleanup"
    /\ pc' = "setup"
    /\ UNCHANGED <<view, lastFired, routeData, currentIndex, isPlaying,
                   intervalRef, timers,
                   nextId, mounted, loadState, payload, lastEvent, prevEvent>>

\* return () => clearInterval(intervalRef.current)
EffectCleanup ==
    /\ pc = "cleanup"
    /\ timers' = ClearInterval(intervalRef, timers)
    /\ pc' = "setup"
    /\ UNCHANGED <<view, lastFired, routeData, currentIndex, isPlaying,
                   intervalRef, nextId,
                   mounted, loadState, payload, lastEvent, prevEvent>>

\* Variant: the id returned by setInterval is not stored in the ref.
EffectSetupNoRef ==
    /\ pc = "setup"
    /\ IF EffectCondition(isPlaying, currentIndex, routeData)
       THEN /\ timers' = timers \cup {nextId}
            /\ nextId' = nextId + 1
            /\ UNCHANGED intervalRef
       ELSE UNCHANGED <<timers, intervalRef, nextId>>
    /\ pc' = "idle"
    /\ UNCHANGED <<view, lastFired, routeData, currentIndex, isPlaying,
                   mounted, loadState, payload, lastEvent, prevEvent>>

\* the effect body
EffectSetup ==
    /\ pc = "setup"
    /\ IF EffectCondition(isPlaying, currentIndex, routeData)
       THEN /\ timers' = timers \cup {nextId}
            /\ intervalRef' = nextId
            /\ nextId' = nextId + 1
       ELSE UNCHANGED <<timers, intervalRef, nextId>>
    /\ pc' = "idle"
    /\ UNCHANGED <<view, lastFired, routeData, currentIndex, isPlaying,
                   mounted, loadState,
                   payload, lastEvent, prevEvent>>

\* ---- handlers -----------------------------------------------------------

\* Variant: the button always starts playback.
ToggleLockAlwaysPlay ==
    /\ Ready
    /\ Commit(currentIndex, TRUE, routeData, FALSE, "toggle")
    /\ UNCHANGED <<intervalRef, timers, nextId, mounted, loadState, payload,
                   lastFired>>

\* onClick={() => setIsPlaying(!isPlaying)}
ToggleLock ==
    /\ Ready
    /\ Commit(currentIndex, ~isPlaying, routeData, FALSE, "toggle")
    /\ UNCHANGED <<intervalRef, timers, nextId, mounted, loadState, payload,
                   lastFired>>

\* Variant: Reset rewinds but does not stop playback.
ResetKeepsPlaying ==
    /\ Ready
    /\ Commit(0, isPlaying, routeData, FALSE, "reset")
    /\ UNCHANGED <<intervalRef, timers, nextId, mounted, loadState, payload,
                   lastFired>>

\* Variant: Reset reuses the play/pause flip.
ResetToggles ==
    /\ Ready
    /\ Commit(0, ~isPlaying, routeData, FALSE, "reset")
    /\ UNCHANGED <<intervalRef, timers, nextId, mounted, loadState, payload,
                   lastFired>>

\* onClick={() => { setIsPlaying(false); setCurrentIndex(0); }}
Reset ==
    /\ Ready
    /\ Commit(0, FALSE, routeData, FALSE, "reset")
    /\ UNCHANGED <<intervalRef, timers, nextId, mounted, loadState, payload,
                   lastFired>>

\* The callback of an armed interval: setCurrentIndex(prev => prev + 1).
\* It runs 2000 ms after the interval was armed, when the commit cycle that
\* armed it has settled (pc = "idle"); the cleanup of the commit it causes
\* disarms the interval before a second period can elapse.
\* A callback that outlives the component updates nothing.
Tick ==
    /\ pc = "idle"
    /\ nextId <= MaxTimers
    /\ \E t \in timers : lastFired' = t
    /\ IF mounted
       THEN Commit(TickUpdater(currentIndex), isPlaying, routeData, FALSE,
                   "tick")
       ELSE UNCHANGED <<currentIndex, isPlaying, routeData, pc, lastEvent,
                        prevEvent, view>>
    /\ UNCHANGED <<intervalRef, timers, nextId, mounted, loadState, payload>>

\* Variant: a new route also stops the playback.
LoadSuccessStops ==
    /\ pc = "idle"
    /\ loadState = "pending"
    /\ ~LoadThrows(payload)
    /\ loadState' = "done"
    /\ IF mounted
       THEN Commit(currentIndex, FALSE, MapPayload(payload), TRUE, "load")
       ELSE UNCHANGED <<currentIndex, isPlaying, routeData, pc, lastEvent,
                        prevEvent, view>>
    /\ UNCHANGED <<intervalRef, timers, nextId, mounted, payload, lastFired>>

\* loadData reaches setRouteData(...).  After unmount the setter is ignored.
LoadSuccess ==
    /\ pc = "idle"
    /\ loadState = "pending"
    /\ ~LoadThrows(payload)
    /\ loadState' = "done"
    /\ IF mounted
       THEN Commit(currentIndex, isPlaying, MapPayload(payload), TRUE, "load")
       ELSE UNCHANGED <<currentIndex, isPlaying, routeData, pc, lastEvent,
                        prevEvent, view>>
    /\ UNCHANGED <<intervalRef, timers, nextId, mounted, payload, lastFired>>

\* The points mapped before the first element that throws.
RECURSIVE MappedPrefix(_)
MappedPrefix(data) ==
    IF data = <<>> \/ IsNull(Head(data)) THEN <<>>
    ELSE <<MapPoint(Head(data))>> \o MappedPrefix(Tail(data))

\* Variant: the points are stored one by one, so a throw keeps the prefix.
LoadFailureKeepsPrefix ==
    /\ pc = "idle"
    /\ loadState = "pending"
    /\ LoadThrows(payload)
    /\ loadState' = "failed"
    /\ IF mounted
       THEN Commit(currentIndex, isPlaying, MappedPrefix(payload.data), TRUE,
                   "loadError")
       ELSE UNCHANGED <<currentIndex, isPlaying, routeData, pc, lastEvent,
                        prevEvent, view>>
    /\ UNCHANGED <<intervalRef, timers, nextId, mounted, payload, lastFired>>

\* loadData throws inside try: catch (error) { console.error(...) }
LoadFailure ==
    /\ pc = "idle"
    /\ loadState = "pending"
    /\ LoadThrows(payload)
    /\ loadState' = "failed"
    /\ lastEvent' = "loadError"
    /\ prevEvent' = lastEvent
    /\ UNCHANGED <<view, lastFired, routeData, currentIndex, isPlaying,
                   intervalRef, timers,
                   nextId, pc, mounted, payload>>

\* Variant: the interval is left armed at unmount.
UnmountNoCleanup ==
    /\ mounted
    /\ pc = "idle"
    /\ mounted' = FALSE
    /\ lastEvent' = "unmount"
    /\ prevEvent' = lastEvent
    /\ UNCHANGED <<view, lastFired, routeData, currentIndex, isPlaying,
                   intervalRef, timers,
                   nextId, pc, loadState, payload>>

\* Unmount: React runs the cleanup of the last effect run.
Unmount ==
    /\ mounted
    /\ pc = "idle"
    /\ mounted' = FALSE
    /\ timers' = ClearInterval(intervalRef, timers)
    /\ lastEvent' = "unmount"
    /\ prevEvent' = lastEvent
    /\ UNCHANGED <<view, lastFired, routeData, currentIndex, isPlaying,
                   intervalRef, nextId,
                   pc, loadState, payload>>

Next ==
    \/ ToggleLock
    \/ Reset
    \/ Tick
    \/ LoadSuccess
    \/ LoadFailure
    \/ Unmount
    \/ EffectCleanup
    \/ EffectSetup

Spec == Init /\ [][Next]_vars

\* ---- the render as a function of its arguments ---------------------------

\* Coordinates and timestamps of the routes the render is applied to.
ViewLats == {0, 1}
ViewLngs == {0, 1}
ViewStamps == {0, 1, 2}
ViewRawPoint ==
    [latitude : ViewLats, longitude : ViewLngs, timestamp : ViewStamps]

\* A mounted, stopped component whose load has delivered any route.
RenderInit ==
    /\ payload \in [kind : {"array"}, data : SeqUpTo(ViewRawPoint, MaxLen)]
    /\ routeData = MapPayload(payload)
    /\ currentIndex = InitialIndex
    /\ view = Render(InitialIndex, routeData)
    /\ isPlaying = FALSE
    /\ intervalRef = NoTimer
    /\ timers = {}
    /\ nextId = 1
    /\ pc = "idle"
    /\ mounted = TRUE
    /\ loadState = "done"
    /\ lastEvent = "load"
    /\ prevEvent = "mount"
    /\ lastFired = NoTimer

\* One render with currentIndex = i, for every i the function can be given
\* (one and two places past the end included).
RenderAt ==
    \E i \in 0..(MaxLen + 1) :
        /\ currentIndex' = i
        /\ view' = Render(i, routeData)
        /\ lastEvent' = "render"
        /\ prevEvent' = lastEvent
        /\ UNCHANGED <<routeData, isPlaying, intervalRef, timers, nextId, pc,
                       mounted, loadState, payload, lastFired>>

RenderNext == RenderAt

RenderSpec == RenderInit /\ [][RenderNext]_vars

\* ---- playback left alone ------------------------------------------------

\* Play is pressed once and no other user action follows.
FirstPlay == ~isPlaying /\ ToggleLock

PlayNext ==
    \/ FirstPlay
    \/ Tick
    \/ LoadSuccess
    \/ LoadFailure
    \/ EffectCleanup
    \/ EffectSetup

\* An armed interval fires, and React runs the cleanup and the body of an
\* effect whose dependencies changed; the click and the fetch may never come.
PlaySpec ==
    /\ Init
    /\ [][PlayNext]_vars
    /\ WF_vars(Tick)
    /\ WF_vars(EffectCleanup)
    /\ WF_vars(EffectSetup)

TypeOK ==
    /\ currentIndex \in Nat
    /\ isPlaying \in BOOLEAN
    /\ timers \subseteq 1..(nextId - 1)
    /\ pc \in {"idle", "cleanup", "setup"}

\* ---- properties ---------------------------------------------------------

Settled == pc = "idle"

\* C1: in every reachable state, whatever the interleaving of ToggleLock,
\* Reset, Tick, route-load completion and teardown, at most one timer is
\* armed.
C1_AtMostOneTimer == Cardinality(timers) <= 1

\* A timer is armed that replaced an earlier one.
C1_Witness == Cardinality(timers) = 1 /\ nextId > 2

\* C2 as stated: currentIndex is always in [0, len(Route)-1].
C2_IndexWithinRoute == currentIndex \in 0..LastIndex

\* C2 as amended: currentIndex is in [0, len(Route)-1] whenever the Route is
\* not empty, and is 0 while the Route is empty.
C2_IndexWithinRouteOrZero ==
    /\ currentIndex \in Nat
    /\ IF Len(routeData) = 0 THEN currentIndex = 0
       ELSE currentIndex <= LastIndex

\* Playback has advanced to the last point of a route of several points.
C2_Witness ==
    Len(routeData) >= 2 /\ currentIndex = LastIndex /\ lastEvent = "tick"

\* C3: in every settled state of the mounted component a timer is armed if
\* and only if isPlaying holds and currentIndex < len(Route)-1, and then it
\* is exactly one timer.
C3_TimerIffPlayingWithPointsLeft ==
    (Settled /\ mounted) =>
        /\ (timers # {}) <=> (isPlaying /\ currentIndex < LastIndex)
        /\ (isPlaying /\ currentIndex < LastIndex) => Cardinality(timers) = 1
        /\ (~isPlaying \/ Len(routeData) = 0 \/ currentIndex = LastIndex)
              => timers = {}

\* Settled and playing with points left: the one timer is armed.
C3_Witness ==
    /\ Settled /\ mounted /\ isPlaying
    /\ currentIndex < LastIndex
    /\ timers = {intervalRef}

\* C4: a Tick is taken only where isPlaying holds and
\* currentIndex < len(Route)-1; it adds exactly one to currentIndex and
\* leaves isPlaying and the Route as they are.
C4_TickOnlyWhilePlaying ==
    [][(pc = "idle" /\ lastEvent' = "tick" /\ prevEvent' = lastEvent)
         => /\ isPlaying
            /\ currentIndex < LastIndex
            /\ currentIndex' = currentIndex + 1
            /\ isPlaying' = isPlaying
            /\ routeData' = routeData]_vars

\* A Tick has been taken and its commit has settled.
C4_Witness == Settled /\ lastEvent = "tick" /\ currentIndex >= 1

\* C5: once a Reset has settled, isPlaying is false, currentIndex is 0 and
\* no timer is armed; no step of the Reset changes the Route.
C5_ResetStopsAndRewinds ==
    /\ []((Settled /\ lastEvent = "reset")
            => (~isPlaying /\ currentIndex = 0 /\ timers = {}))
    /\ [][(lastEvent' = "reset") => (routeData' = routeData)]_vars

\* Reset was pressed right after Play had armed the first timer.
C5_Witness ==
    /\ Settled /\ lastEvent = "reset" /\ prevEvent = "toggle"
    /\ nextId = 2 /\ Len(routeData) >= 2

\* Playing at the last index, settled.
AtEndPlaying ==
    Settled /\ isPlaying /\ Len(routeData) > 0 /\ currentIndex = LastIndex

\* C6: while playing at the last index no timer is armed, and every step that
\* is not a ToggleLock or a Reset leaves currentIndex, isPlaying and the
\* timers as they are.
C6_EndOfRouteIsStable ==
    /\ [](AtEndPlaying => timers = {})
    /\ [][(AtEndPlaying /\ lastEvent' \notin {"toggle", "reset"})
            => UNCHANGED <<currentIndex, isPlaying, timers, routeData>>]_vars

\* The end of a route of several points was reached by playing.
C6_Witness ==
    AtEndPlaying /\ Len(routeData) >= 2 /\ lastEvent = "tick" /\ nextId > 1

\* C7: a Reset taken right after a Reset changes nothing: the state stays
\* currentIndex = 0, Stopped, no timer, same Route.
C7_ResetIdempotent ==
    [][(pc = "idle" /\ lastEvent = "reset"
          /\ lastEvent' = "reset" /\ prevEvent' = "reset")
         => /\ UNCHANGED <<routeData, currentIndex, isPlaying, intervalRef,
                           timers, nextId, pc>>
            /\ currentIndex' = 0 /\ ~isPlaying' /\ timers' = {}]_vars

\* Two Resets in a row, the first of which stopped a playback.
C7_Witness ==
    /\ Settled /\ lastEvent = "reset" /\ prevEvent = "reset"
    /\ nextId > 1 /\ currentIndex = 0 /\ ~isPlaying /\ timers = {}

\* C8: every ToggleLock negates isPlaying, and no step of a ToggleLock
\* changes currentIndex or the Route.
C8_ToggleLockPureFlip ==
    /\ [][(pc = "idle" /\ lastEvent' = "toggle" /\ prevEvent' = lastEvent)
            => (isPlaying' = ~isPlaying)]_vars
    /\ [][(lastEvent' = "toggle")
            => UNCHANGED <<currentIndex, routeData>>]_vars

\* Paused and resumed in the middle of the route.
C8_Witness ==
    /\ Settled /\ lastEvent = "toggle" /\ prevEvent = "toggle"
    /\ isPlaying /\ currentIndex >= 1 /\ currentIndex < LastIndex

\* C9: once the component is unmounted no timer is armed and currentIndex
\* never changes again.
C9_NoTimerAfterTeardown ==
    /\ [](~mounted => timers = {})
    /\ [][~mounted => (currentIndex' = currentIndex)]_vars

\* Unmounted while a timer was armed.
C9_Witness ==
    /\ ~mounted /\ isPlaying /\ currentIndex < LastIndex
    /\ intervalRef # NoTimer

\* The payload is one on which the try block of loadData throws.
BadPayload ==
    \/ payload.kind \in {"fetchReject", "badJson", "notArray"}
    \/ \E i \in 1..Len(payload.data) : "null" \in DOMAIN payload.data[i]

\* C10: when the load fails the Route stays empty, no timer is ever armed,
\* and the mounted component still accepts ToggleLock and Reset.
C10_LoadFailureIsContained ==
    (BadPayload /\ loadState # "pending") =>
        /\ loadState = "failed"
        /\ routeData = <<>>
        /\ currentIndex = 0
        /\ timers = {} /\ nextId = 1 /\ intervalRef = NoTimer
        /\ (mounted /\ Settled) => (ENABLED ToggleLock /\ ENABLED Reset)

\* After a failed load, Play was pressed and accepted.
C10_Witness ==
    /\ loadState = "failed" /\ Settled /\ mounted
    /\ isPlaying /\ lastEvent = "toggle" /\ prevEvent = "loadError"

\* The points the speed is computed from, and whether both exist.
CurrPoint == At(routeData, currentIndex)
PrevPoint == At(routeData, currentIndex - 1)
BothPointsExist == ~IsMissing(CurrPoint) /\ ~IsMissing(PrevPoint)
Rendered == lastEvent = "render"

\* C11: at every index i >= 1 where route[i-1] and route[i] exist and
\* route[i].timestamp <= route[i-1].timestamp, the speed shown is "N/A".
C11_NonPositiveElapsedIsNA ==
    (currentIndex >= 1 /\ BothPointsExist
       /\ CurrPoint.timestamp <= PrevPoint.timestamp)
      => view.speed = "N/A"

\* Zero elapsed time between two different places: the division by zero.
C11_Witness ==
    /\ Rendered /\ currentIndex >= 1 /\ BothPointsExist
    /\ CurrPoint.timestamp = PrevPoint.timestamp
    /\ CurrPoint.lat # PrevPoint.lat
    /\ view.speed = "N/A"

\* C12: the speed shown is "0.00" whenever currentIndex is 0 or the route
\* has at most one point.
C12_ZeroAtStartOrShortRoute ==
    (currentIndex = 0 \/ Len(routeData) <= 1) => view.speed = "0.00"

\* Index 0 of a route whose first two points differ in place and time.
C12_Witness ==
    /\ Rendered /\ currentIndex = 0 /\ Len(routeData) >= 2
    /\ routeData[1].lat # routeData[2].lat
    /\ routeData[1].timestamp < routeData[2].timestamp
    /\ view.speed = "0.00"

\* dLat^2 + dLon^2 and the elapsed hours of the current pair of points.
SquaredDegrees ==
    (CurrPoint.lat - PrevPoint.lat) * (CurrPoint.lat - PrevPoint.lat)
      + (CurrPoint.lng - PrevPoint.lng) * (CurrPoint.lng - PrevPoint.lng)
ElapsedHours == CurrPoint.timestamp - PrevPoint.timestamp

\* The hundredths the model computes for the current pair.
ShownCenti ==
    SpeedCenti(CalculateDistanceKm(PrevPoint.lat, PrevPoint.lng,
                                   CurrPoint.lat, CurrPoint.lng),
               MsToHours(DateGetTime(CurrPoint.timestamp)
                           - DateGetTime(PrevPoint.timestamp)))

\* h hundredths is sqrt(q) * 111.32 / n rounded to the nearest hundredth:
\* (2h - 1) * n <= 2 * 11132 * sqrt(q) < (2h + 1) * n, squared.
IsRoundedSpeed(h, q, n) ==
    /\ h >= 0
    /\ (h = 0 \/ ((2 * h - 1) * n) * ((2 * h - 1) * n)
                    <= 4 * 11132 * 11132 * q)
    /\ 4 * 11132 * 11132 * q < ((2 * h + 1) * n) * ((2 * h + 1) * n)

\* C13: for consecutive points with curr.timestamp > prev.timestamp the speed
\* shown is sqrt(dLat^2 + dLon^2) * 111.32 divided by the elapsed hours, as a
\* decimal with 2 fraction digits.
C13_SpeedIsDistanceOverHours ==
    (currentIndex >= 1 /\ BothPointsExist
       /\ CurrPoint.timestamp > PrevPoint.timestamp)
      => /\ IsRoundedSpeed(ShownCenti, SquaredDegrees, ElapsedHours)
         /\ view.speed = ToFixed2(ShownCenti)
         /\ (SquaredDegrees = 0) => view.speed = "0.00"
         /\ (SquaredDegrees = 1 /\ ElapsedHours = 1) => view.speed = "111.32"
         /\ (SquaredDegrees = 1 /\ ElapsedHours = 2) => view.speed = "55.66"
         /\ (SquaredDegrees = 2 /\ ElapsedHours = 1) => view.speed = "157.43"
         /\ (SquaredDegrees = 2 /\ ElapsedHours = 2) => view.speed = "78.72"

\* A diagonal step of one degree each way in two hours.
C13_Witness ==
    /\ Rendered /\ currentIndex >= 1 /\ BothPointsExist
    /\ SquaredDegrees = 2 /\ ElapsedHours = 2
    /\ view.speed = "78.72"

\* C16: for every Route, the empty one included, and every currentIndex,
\* those past the end included, the position shown is route[currentIndex]
\* when it exists and otherwise the default {lat 0, lng 0, timestamp null},
\* whose timestamp is shown as "N/A"; the speed shown is "0.00" whenever the
\* current or the previous point is missing; an empty Route has no polyline.
C16_OutOfRangeIsDefaulted ==
    /\ IF currentIndex < Len(routeData)
       THEN view.position = routeData[currentIndex + 1]
       ELSE /\ view.position = [lat |-> 0, lng |-> 0, timestamp |-> NullStamp]
            /\ view.timestamp = "N/A"
    /\ (currentIndex >= Len(routeData) \/ currentIndex = 0)
          => view.speed = "0.00"
    /\ (Len(routeData) = 0) => ~view.polyline

\* One place past the end of a route of several points: the previous point
\* exists, the current one does not.
C16_Witness ==
    /\ Rendered /\ Len(routeData) >= 2 /\ currentIndex = Len(routeData)
    /\ view.position = DefaultPosition /\ view.speed = "0.00"

\* A step that is the callback of an interval.
TickStep ==
    /\ pc = "idle"
    /\ lastEvent' = "tick" /\ prevEvent' = lastEvent
    /\ currentIndex' # currentIndex

\* C14: with a Route of n >= 2 points, after the one ToggleLock and with no
\* further user action, currentIndex moves only by +1 steps, eventually
\* reaches n-1 and stays there; for n = 2 the Tick goes from 0 to 1.
C14_PlaysToTheEnd ==
    /\ [][currentIndex' \in {currentIndex, currentIndex + 1}]_vars
    /\ [][(TickStep /\ Len(routeData) = 2)
            => (currentIndex = 0 /\ currentIndex' = 1)]_vars
    /\ []((isPlaying /\ Len(routeData) >= 2)
            => <>[](currentIndex = LastIndex /\ timers = {}))

\* Loaded, played, and ticked through a route of three or more points.
C14_Witness ==
    /\ Settled /\ isPlaying /\ Len(routeData) >= 3
    /\ currentIndex = LastIndex /\ timers = {}
    /\ lastEvent = "tick" /\ prevEvent = "tick"
    /\ nextId = Len(routeData)

\* C15: every change of isPlaying, currentIndex or the Route starts a commit
\* whose cleanup leaves no timer armed before the effect body decides; each
\* interval's callback runs at most once (the ids that fire increase
\* strictly), and the interval that fired is disarmed by the commit it caused.
C15_TicksAreSerialized ==
    /\ [](pc = "setup" => timers = {})
    /\ [][(mounted /\ (isPlaying' # isPlaying \/ currentIndex' # currentIndex
                         \/ routeData' # routeData))
            => pc' = "cleanup"]_vars
    /\ [][TickStep => /\ timers = {intervalRef}
                      /\ lastFired' = intervalRef
                      /\ lastFired' > lastFired]_vars
    /\ []((lastEvent = "tick" /\ pc # "cleanup") => lastFired \notin timers)

\* Two Ticks in a row, the second from the interval armed after the first.
C15_Witness ==
    /\ Settled /\ lastEvent = "tick" /\ prevEvent = "tick"
    /\ lastFired = 2 /\ intervalRef = 2 /\ timers = {}

\* C17: while playing with an empty Route no timer is armed and currentIndex
\* is 0; when the load completes during playback with a Route of 2 or more
\* points, a timer is armed once the commit settles, and a Tick follows with
\* no user action.
C17_PlayBeforeLoad ==
    /\ []((isPlaying /\ Len(routeData) = 0)
            => (timers = {} /\ currentIndex = 0 /\ nextId = 1))
    /\ []((Settled /\ lastEvent = "load" /\ isPlaying /\ Len(routeData) >= 2)
            => (timers = {intervalRef} /\ intervalRef = 1))
    /\ []((lastEvent = "load" /\ isPlaying /\ Len(routeData) >= 2)
            => <>(lastEvent = "tick" /\ currentIndex = 1))

\* Play, then the load, then the first Tick.
C17_Witness ==
    /\ Settled /\ isPlaying /\ currentIndex = 1
    /\ lastEvent = "tick" /\ prevEvent = "load"

\* C18: ToggleLock, Reset and Tick leave the Route as it is; the completion of
\* the load, successful or not, leaves currentIndex and isPlaying as they
\* are; the Route is assigned only by the completion of the one load, which
\* happens at most once.
C18_DisjointWriters ==
    /\ [][(lastEvent' \in {"toggle", "reset", "tick"})
            => routeData' = routeData]_vars
    /\ [][(lastEvent' \in {"load", "loadError"} \/ loadState' # loadState)
            => UNCHANGED <<currentIndex, isPlaying>>]_vars
    /\ [][(routeData' # routeData \/ (pc = "idle" /\ lastEvent' = "load"
                                        /\ prevEvent' = lastEvent))
            => (loadState = "pending" /\ loadState' = "done")]_vars
    /\ [][(loadState # "pending") => (loadState' = loadState)]_vars

\* The load completed during playback and left isPlaying as it was.
C18_Witness ==
    /\ Settled /\ loadState = "done" /\ Len(routeData) >= 2
    /\ lastEvent = "load" /\ prevEvent = "toggle" /\ isPlaying
    /\ currentIndex = 0
====
